---- MODULE Spec2Model ----
(***************************************************************************)
(* A model of rust_udp_relay: the address filter, the per-address          *)
(* receivers, the tokio broadcast channel between them and the transmit    *)
(* loop of main(), with the send tasks the loop spawns.                    *)
(*                                                                         *)
(* IPv4 addresses are 4-tuples of octets (TLC's integers are 32 bit        *)
(* signed, an address as one u32 would overflow them); ports are u16.      *)
(***************************************************************************)
EXTENDS Integers, Sequences, FiniteSets, Bags, TLC

(***************************************************************************)
(* Program constants (src/src/main.rs:16-18).                              *)
(***************************************************************************)
BUFFER_SIZE == 4096 + 20 + 8

TRANSMIT_PORT == 58371

\* The source has CHANNEL_SIZE = 2 << 7.  The shift is scaled down so that a
\* lagging subscription is within reach of the model checker.
ChannelShift == 0

CHANNEL_SIZE == 2 * (2 ^ ChannelShift)

\* the shift of CHANNEL_SIZE in the source
ChannelShiftOfSource == 7

U16 == 65536

(***************************************************************************)
(* Bounds of the model.                                                    *)
(***************************************************************************)
\* the receive sockets fall silent once this many datagrams were published
\* (and one more after the subscription has lagged, see Silent)
MaxReads == 3

\* longest block list / allow list drawn for the filter table
MaxNets == 2

\* send_to calls that return Err in one run
MaxSendErrors == 1

(***************************************************************************)
(* Addresses.                                                              *)
(***************************************************************************)
Min(a, b) == IF a < b THEN a ELSE b

Max(a, b) == IF a < b THEN b ELSE a

\* std::net::SocketAddrV4::new(ip, port)
SocketAddrV4(ip, port) == [ip |-> ip, port |-> port]

\* std::net::SocketAddr::V4(inner)
V4(ip, port) == [fam |-> "V4", inner |-> SocketAddrV4(ip, port)]

\* std::net::SocketAddr::V6(inner): the relay never looks inside, the address
\* is kept opaque
V6(port) == [fam |-> "V6", inner |-> SocketAddrV4(<<0, 0, 0, 0>>, port)]

\* ipnet::Ipv4Net: an address and a prefix length; host bits may be set
Net(ip, len) == [addr |-> ip, prefix_len |-> len]

\* Ord for Ipv4Addr: the octets, most significant first
AddrLeq(a, b) ==
    \/ a[1] < b[1]
    \/ a[1] = b[1] /\ a[2] < b[2]
    \/ a[1] = b[1] /\ a[2] = b[2] /\ a[3] < b[3]
    \/ a[1] = b[1] /\ a[2] = b[2] /\ a[3] = b[3] /\ a[4] <= b[4]

\* how many of the prefix's bits fall in octet i
PrefixBits(len, i) == Min(8, Max(0, len - 8 * (i - 1)))

\* Ipv4Net::network(): addr & netmask
NetworkAddr(net) ==
    [i \in 1..4 |->
        LET h == 2 ^ (8 - PrefixBits(net.prefix_len, i))
        IN  net.addr[i] - (net.addr[i] % h)]

\* Ipv4Net::broadcast(): addr | hostmask
BroadcastAddr(net) ==
    [i \in 1..4 |->
        LET h == 2 ^ (8 - PrefixBits(net.prefix_len, i))
        IN  net.addr[i] - (net.addr[i] % h) + (h - 1)]

\* Ipv4Net::contains(&Ipv4Addr): network() <= ip && ip <= broadcast()
NetContains(net, ip) ==
    /\ AddrLeq(NetworkAddr(net), ip)
    /\ AddrLeq(ip, BroadcastAddr(net))

\* Iterator::any over a Vec: false on the empty Vec
RECURSIVE AnyContains(_, _)
AnyContains(nets, ip) ==
    IF nets = <<>> THEN FALSE
    ELSE IF NetContains(Head(nets), ip) THEN TRUE
    ELSE AnyContains(Tail(nets), ip)

(***************************************************************************)
(* AddressFilter.                                                          *)
(***************************************************************************)
\* AddressFilter::new
AddressFilter(set, block, allow) ==
    [transmit_addresses_set |-> set, block_nets |-> block, allow_nets |-> allow]

\* a mutant of should_transmit: the allow list overrides the storm check too
should_transmit_allow_first(self, socket_addr) ==
    LET storm_check == socket_addr \in self.transmit_addresses_set
        in_block_net == AnyContains(self.block_nets, socket_addr.ip)
        in_allow_net == AnyContains(self.allow_nets, socket_addr.ip)
    IN  (~storm_check /\ ~in_block_net) \/ in_allow_net

\* a mutant of should_transmit: the allow list is not consulted
should_transmit_no_allow(self, socket_addr) ==
    LET storm_check == socket_addr \in self.transmit_addresses_set
        in_block_net == AnyContains(self.block_nets, socket_addr.ip)
    IN  ~storm_check /\ ~in_block_net

\* AddressFilter::should_transmit
should_transmit(self, socket_addr) ==
    LET storm_check == socket_addr \in self.transmit_addresses_set
        in_block_net == AnyContains(self.block_nets, socket_addr.ip)
        in_allow_net == AnyContains(self.allow_nets, socket_addr.ip)
    IN  ~storm_check /\ (~in_block_net \/ in_allow_net)

(***************************************************************************)
(* The interfaces of the host and the command line.                        *)
(***************************************************************************)
IpEth0 == <<10, 0, 0, 2>>

IpEth1 == <<192, 168, 1, 1>>

\* network_interface::Addr
AddrV4(ip) == [fam |-> "V4", ip |-> ip]

AddrV6 == [fam |-> "V6", ip |-> <<0, 0, 0, 0>>]

\* get_interface_map(): what NetworkInterface::show() reports on the host
InterfaceMap ==
    [eth0 |-> <<AddrV4(IpEth0), AddrV6>>,
     eth1 |-> <<AddrV4(IpEth1)>>,
     sit0 |-> <<AddrV6>>]

RECURSIVE V4AddrsOf(_, _)
\* the inner filter_map of get_socket_addresses: the V4 addresses of one interface
V4AddrsOf(addrs, port) ==
    IF addrs = <<>> THEN <<>>
    ELSE IF Head(addrs).fam = "V4"
         THEN <<SocketAddrV4(Head(addrs).ip, port)>> \o V4AddrsOf(Tail(addrs), port)
         ELSE V4AddrsOf(Tail(addrs), port)

RECURSIVE get_socket_addresses(_, _, _)
\* get_socket_addresses: the empty sequence stands for None, Some is never empty
get_socket_addresses(interfaces, interface_map, port) ==
    IF interfaces = <<>> THEN <<>>
    ELSE (IF Head(interfaces) \in DOMAIN interface_map
          THEN V4AddrsOf(interface_map[Head(interfaces)], port)
          ELSE <<>>)
         \o get_socket_addresses(Tail(interfaces), interface_map, port)

\* Args: the parsed command line
Args(port, rx, tx, block, allow) ==
    [port |-> port, receive_interfaces |-> rx, transmit_interfaces |-> tx,
     block_nets |-> block, allow_nets |-> allow]

(***************************************************************************)
(* State.                                                                  *)
(***************************************************************************)
VARIABLES
    args,                \* Args::parse()
    mainPc,              \* where main() is: start, bind_receivers, bind_transmit,
                         \* subscribe, loop, exited
    exit_code,           \* -1 while the process runs; 1: process::exit(1), 101: panic
    receive_addresses,   \* Vec<SocketAddrV4>
    transmit_addresses,  \* Vec<SocketAddrV4>
    address_filter,      \* Arc<AddressFilter>
    rcv,                 \* the spawned receiver tasks, in spawn order: loop, panicked
    bus,                 \* every value sent on the broadcast channel, oldest first;
                         \* the channel retains the last CHANNEL_SIZE of them
    tx_cnt,              \* live Sender handles of the channel
    rx_cnt,              \* live Receiver handles of the channel
    rxNext,              \* rx's cursor: the number of values before its next one
    subPos,              \* history: Len(bus) at tx.subscribe(), -1 before it
    lagAt,               \* history: Len(bus) when rx.recv() last returned Lagged,
                         \* -1 before that
    tasks,               \* the send tasks spawned by the transmit loop, not yet done
    sends,               \* history: the bag of send_to attempts made
    lastRead,            \* history: the datagram recv_from returned last
    probe                \* the filter table: one filter, one candidate, the answer

vars ==
    <<args, mainPc, exit_code, receive_addresses, transmit_addresses,
      address_filter, rcv, bus, tx_cnt, rx_cnt, rxNext, subPos, lagAt, tasks,
      sends, lastRead, probe>>

pipeline ==
    <<args, mainPc, exit_code, receive_addresses, transmit_addresses,
      address_filter, rcv, bus, tx_cnt, rx_cnt, rxNext, subPos, lagAt, tasks,
      sends, lastRead>>

(***************************************************************************)
(* Inputs.                                                                 *)
(***************************************************************************)
\* the command lines the relay is started with: two receive addresses and a
\* block list without an allow list; a block list with an allow list inside
\* it and destination ports that leave the u16 range; the transmit interface
\* named twice, with a destination inside the allow list; no IPv4 address to
\* receive on; no interface to transmit to
CommandLines ==
    { Args(9000, <<"eth0", "eth1">>, <<"eth0">>,
           <<Net(<<192, 168, 0, 0>>, 16)>>, <<>>),
      Args(65534, <<"eth0">>, <<"eth0">>,
           <<Net(<<192, 168, 0, 0>>, 16)>>, <<Net(<<192, 168, 1, 0>>, 24)>>),
      Args(9000, <<"eth0">>, <<"eth0", "eth0">>,
           <<Net(<<10, 0, 0, 0>>, 8)>>, <<Net(<<10, 0, 0, 2>>, 32)>>),
      Args(9000, <<"sit0">>, <<"eth0">>, <<>>, <<>>),
      Args(9000, <<"eth0">>, <<"wlan0">>, <<>>, <<>>) }

\* before the first read
NoDatagram ==
    [src |-> [fam |-> "none", inner |-> SocketAddrV4(<<0, 0, 0, 0>>, 0)],
     data |-> "", len |-> 0, origin |-> "none"]

IdleProbe ==
    [filter |-> AddressFilter({}, <<>>, <<>>),
     candidate |-> SocketAddrV4(<<0, 0, 0, 0>>, 0),
     done |-> FALSE, res |-> FALSE]

\* the state when main() is entered
PipelineInit ==
    /\ args \in CommandLines
    /\ mainPc = "start"
    /\ exit_code = -1
    /\ receive_addresses = <<>>
    /\ transmit_addresses = <<>>
    /\ address_filter = AddressFilter({}, <<>>, <<>>)
    /\ rcv = <<>>
    /\ bus = <<>>
    /\ tx_cnt = 0
    /\ rx_cnt = 0
    /\ rxNext = 0
    /\ subPos = -1
    /\ lagAt = -1
    /\ tasks = {}
    /\ sends = EmptyBag
    /\ lastRead = NoDatagram

Init ==
    /\ PipelineInit
    /\ probe = IdleProbe

Running == mainPc # "exited"

\* a mutant of Exit: the process ends with status 0
ExitZero(code) ==
    /\ mainPc' = "exited"
    /\ exit_code' = 0

\* process::exit(code), or a panic in main (code 101): every task ends with it
Exit(code) ==
    /\ mainPc' = "exited"
    /\ exit_code' = code

(***************************************************************************)
(* main(): startup.                                                        *)
(***************************************************************************)
\* a mutant of transmit_ports: the range starts at 0, the first destination
\* port is the receive port
transmit_ports_from_zero(port) == [i \in 1..2 |-> (port + (i - 1)) % U16]

\* (1..3).map(|i| args.port + i), as a release build computes it (u16 wraps)
transmit_ports(port) == [i \in 1..2 |-> (port + i) % U16]

\* args.port + i leaves the u16 range for some i of 1..3
PortOverflows(port) == \E i \in 1..2 : port + i >= U16

RECURSIVE FlatMapPorts(_, _)
\* transmit_ports.iter().flat_map(|p| get_socket_addresses(.., *p)).collect()
FlatMapPorts(ports, interfaces) ==
    IF ports = <<>> THEN <<>>
    ELSE get_socket_addresses(interfaces, InterfaceMap, Head(ports))
         \o FlatMapPorts(Tail(ports), interfaces)

\* HashSet::from_iter(transmit_addresses.iter().cloned())
ToSet(seq) == { seq[i] : i \in DOMAIN seq }

\* a mutant of MainSenders: tx is moved into the last receiver task
MainSendersMoved == Cardinality({})

\* let (tx, _rx) = broadcast::channel(..): main() owns tx until it returns,
\* and it never returns
MainSenders == Cardinality({"tx"})

\* a mutant of MainReceivers: the pattern is (tx, _), the Receiver is dropped
\* at once
MainReceiversDropped == Cardinality({})

\* let (tx, _rx) = broadcast::channel(..): _rx is a binding, main() owns the
\* Receiver until it returns
MainReceivers == Cardinality({"_rx"})

\* main() from Args::parse() to broadcast::channel(CHANNEL_SIZE).  An overflow
\* of args.port + i panics in a debug build and wraps in a release build.
Startup ==
    /\ mainPc = "start"
    /\ \E build \in {"debug", "release"} :
        LET ra == get_socket_addresses(args.receive_interfaces, InterfaceMap, args.port)
            tp == transmit_ports(args.port)
            ta == FlatMapPorts(tp, args.transmit_interfaces)
            none == \E i \in DOMAIN tp :
                       get_socket_addresses(args.transmit_interfaces, InterfaceMap, tp[i]) = <<>>
        IN  IF ra = <<>>
            THEN /\ Exit(1)
                 /\ UNCHANGED <<receive_addresses, transmit_addresses, address_filter,
                                tx_cnt, rx_cnt>>
            ELSE IF PortOverflows(args.port) /\ build = "debug"
            THEN /\ Exit(101)
                 /\ receive_addresses' = ra
                 /\ UNCHANGED <<transmit_addresses, address_filter, tx_cnt, rx_cnt>>
            ELSE IF none
            THEN /\ Exit(1)
                 /\ receive_addresses' = ra
                 /\ UNCHANGED <<transmit_addresses, address_filter, tx_cnt, rx_cnt>>
            ELSE /\ receive_addresses' = ra
                 /\ transmit_addresses' = ta
                 /\ address_filter' =
                        AddressFilter(ToSet(ta), args.block_nets, args.allow_nets)
                 /\ tx_cnt' = MainSenders
                 /\ rx_cnt' = MainReceivers
                 /\ mainPc' = "bind_receivers"
                 /\ UNCHANGED exit_code
    /\ UNCHANGED <<args, rcv, bus, rxNext, subPos, lagAt, tasks, sends, lastRead, probe>>

\* one turn of the for loop over receive_addresses: UdpSocket::bind(..).expect(..),
\* then tokio::spawn of the receiver task, which holds two clones of tx
BindReceiver ==
    /\ mainPc = "bind_receivers"
    /\ \E bound \in BOOLEAN :
        IF bound
        THEN /\ rcv' = Append(rcv, "loop")
             /\ tx_cnt' = tx_cnt + 2
             /\ mainPc' = IF Len(rcv) + 1 = Len(receive_addresses)
                           THEN "bind_transmit" ELSE "bind_receivers"
             /\ UNCHANGED exit_code
        ELSE /\ Exit(101)
             /\ UNCHANGED <<rcv, tx_cnt>>
    /\ UNCHANGED <<args, receive_addresses, transmit_addresses, address_filter, bus,
                   rx_cnt, rxNext, subPos, lagAt, tasks, sends, lastRead, probe>>

\* SocketAddrV4::new(Ipv4Addr::new(127, 0, 0, 1), TRANSMIT_PORT)
transmit_sock_addr == SocketAddrV4(<<127, 0, 0, 1>>, TRANSMIT_PORT)

\* UdpSocket::bind(transmit_sock_addr).expect(..)
BindTransmit ==
    /\ mainPc = "bind_transmit"
    /\ \E bound \in BOOLEAN :
        IF bound
        THEN mainPc' = "subscribe" /\ UNCHANGED exit_code
        ELSE Exit(101)
    /\ UNCHANGED <<args, receive_addresses, transmit_addresses, address_filter, rcv,
                   bus, tx_cnt, rx_cnt, rxNext, subPos, lagAt, tasks, sends,
                   lastRead, probe>>

\* a mutant of SubscribePos: the new cursor starts at the oldest retained value
SubscribeAtOldest == Max(0, Len(bus) - CHANNEL_SIZE)

\* Sender::subscribe: the new cursor starts at the tail of the channel
SubscribePos == Len(bus)

\* let mut rx = tx.subscribe()
Subscribe ==
    /\ mainPc = "subscribe"
    /\ rxNext' = SubscribePos
    /\ subPos' = Len(bus)
    /\ rx_cnt' = rx_cnt + 1
    /\ mainPc' = "loop"
    /\ UNCHANGED <<args, exit_code, receive_addresses, transmit_addresses,
                   address_filter, rcv, bus, tx_cnt, lagAt, tasks, sends, lastRead, probe>>

(***************************************************************************)
(* The network, as the receive sockets see it.                             *)
(***************************************************************************)
\* a datagram on the wire: its source, its payload (a tag and a length in
\* bytes), and where it came from (history: the network, or this relay)
Datagram(src, data, len, origin) ==
    [src |-> src, data |-> data, len |-> len, origin |-> origin]

\* what other hosts send to the receive sockets
EnvDatagrams ==
    { Datagram(V4(<<10, 0, 0, 5>>, 4000), "a", 1, "net"),
      Datagram(V4(<<192, 168, 1, 10>>, 5000), "b", BUFFER_SIZE + 1, "net"),
      Datagram(V4(IpEth0, (args.port + 1) % U16), "c", 2, "net"),
      Datagram(V6(4000), "f", 1, "net") }

\* what the relay itself has sent to address a: a datagram reaches the socket
\* bound to its destination address and port, with the transmit socket as source
RelayDatagrams(a) ==
    { Datagram(V4(transmit_sock_addr.ip, transmit_sock_addr.port),
               k.buf.data, k.buf.len, "relay") :
        k \in { j \in BagToSet(sends) : j.ok /\ j.to = a } }

\* the datagrams recv_from can return on receiver r's socket
Arriving(r) == EnvDatagrams \cup RelayDatagrams(receive_addresses[r])

(***************************************************************************)
(* Receivers.                                                              *)
(***************************************************************************)
\* buf[..len].to_vec() after recv_from: the first len bytes, len <= BUFFER_SIZE
Payload(d) == [data |-> d.data, len |-> Min(d.len, BUFFER_SIZE)]

\* the value sent on the channel, (Vec<u8>, SocketAddr); origin and by (the
\* receiver task that sent it) are history
Item(r, d) ==
    [buf |-> Payload(d), source_addr |-> d.src, origin |-> d.origin, by |-> r]

\* a mutant of Admit: the address family is not looked at
AdmitAnyFamily(source_addr) ==
    should_transmit(address_filter, source_addr.inner)

\* if let SocketAddr::V4(inner) = source_addr { if should_transmit(&inner) ..
Admit(source_addr) ==
    /\ source_addr.fam = "V4"
    /\ should_transmit(address_filter, source_addr.inner)

\* a mutant of ChannelSend: a value is refused while the subscription is a
\* full channel behind
ChannelSendBackpressure(item) ==
    IF rx_cnt = 0 \/ Len(bus) - rxNext >= CHANNEL_SIZE THEN bus ELSE Append(bus, item)

\* a mutant of ChannelSend: the value is stored at the head
ChannelSendFront(item) == IF rx_cnt = 0 THEN bus ELSE <<item>> \o bus

\* Sender::send: Err(SendError) when no Receiver handle is left, else the
\* value is stored at the tail
ChannelSend(item) == IF rx_cnt = 0 THEN bus ELSE Append(bus, item)

\* no more datagrams arrive: MaxReads were published, and one more once
\* rx.recv() has returned Lagged
Silent == Len(bus) >= MaxReads + (IF lagAt >= 0 THEN 1 ELSE 0)

\* a mutant of AfterPublish: the result of tx.send is unwrapped
AfterPublishUnwrap(r, sent) ==
    IF sent THEN rcv ELSE [rcv EXCEPT ![r] = "panicked"]

\* match tx.send(..): Ok(_) is traced and Err(e) is warned about, the handler
\* returns to the task's loop after either
AfterPublish(r, sent) == rcv

\* receive_handler, from the return of recv_from(..) with Ok to its end:
\* nothing is awaited in between
receive_handler(r, d) ==
    /\ Running
    /\ rcv[r] = "loop"
    /\ ~Silent
    /\ lastRead' = d
    /\ bus' = IF Admit(d.src) THEN ChannelSend(Item(r, d)) ELSE bus
    /\ rcv' = IF Admit(d.src) THEN AfterPublish(r, rx_cnt > 0) ELSE rcv
    /\ UNCHANGED <<args, mainPc, exit_code, receive_addresses, transmit_addresses,
                   address_filter, tx_cnt, rx_cnt, rxNext, subPos, lagAt, tasks,
                   sends, probe>>

\* a mutant of AfterReadError: the panic takes every receiver task down
ReadErrorStopsAll(r) == [r2 \in DOMAIN rcv |-> "panicked"]

\* recv_from(..).await.unwrap() on Err: the task panics and is gone
AfterReadError(r) == [rcv EXCEPT ![r] = "panicked"]

\* receive_handler when recv_from returns Err; the task's two Senders drop
ReadError(r) ==
    /\ Running
    /\ rcv[r] = "loop"
    /\ rcv' = AfterReadError(r)
    /\ tx_cnt' = IF rcv'[r] = "panicked" THEN tx_cnt - 2 ELSE tx_cnt
    /\ UNCHANGED <<args, mainPc, exit_code, receive_addresses, transmit_addresses,
                   address_filter, bus, rx_cnt, rxNext, subPos, lagAt, tasks, sends,
                   lastRead, probe>>

(***************************************************************************)
(* The transmit loop of main() and the send tasks.                         *)
(***************************************************************************)
\* the cursor has fallen behind the values the channel retains
Lagged == rxNext + CHANNEL_SIZE < Len(bus)

\* a mutant of SpawnSend: nothing is spawned, the value is dropped
SpawnNothing(pos) == tasks

\* tokio::spawn(async move { for transmit_address in transmit_addresses.iter() ..
\* the task owns buf; pos (history) is the place of the value on the channel
SpawnSend(pos) == tasks \cup { [pos |-> pos, buf |-> bus[pos].buf, i |-> 1] }

\* a mutant of AfterRecvError: an error of recv ends the loop
BreakOnRecvError == "stopped"

\* Err(e) => error!(..): the arm falls through to the next turn of the loop
AfterRecvError == "loop"

\* one rx.recv().await of the loop: Err(Lagged) moves the cursor to the oldest
\* retained value, Ok spawns the send task, Err(Closed) (no Sender left and
\* nothing to read) is logged; otherwise recv pends
TransmitRecv ==
    /\ mainPc = "loop"
    /\ rxNext < Len(bus) \/ tx_cnt = 0
    /\ IF Lagged
       THEN /\ rxNext' = Len(bus) - CHANNEL_SIZE
            /\ lagAt' = Len(bus)
            /\ mainPc' = AfterRecvError
            /\ UNCHANGED tasks
       ELSE IF rxNext < Len(bus)
       THEN /\ rxNext' = rxNext + 1
            /\ tasks' = SpawnSend(rxNext + 1)
            /\ UNCHANGED <<lagAt, mainPc>>
       ELSE /\ mainPc' = AfterRecvError
            /\ UNCHANGED <<rxNext, lagAt, tasks>>
    /\ UNCHANGED <<args, exit_code, receive_addresses, transmit_addresses,
                   address_filter, rcv, bus, tx_cnt, rx_cnt, subPos, sends,
                   lastRead, probe>>

\* a mutant of AfterSend: a failed send ends the task
AfterSendStopOnError(t, ok) ==
    IF ok /\ t.i < Len(transmit_addresses)
    THEN (tasks \ {t}) \cup {[t EXCEPT !.i = t.i + 1]}
    ELSE tasks \ {t}

\* the for loop of the send task goes to the next address, whatever send_to
\* returned, and the task ends after the last one
AfterSend(t, ok) ==
    IF t.i < Len(transmit_addresses)
    THEN (tasks \ {t}) \cup {[t EXCEPT !.i = t.i + 1]}
    ELSE tasks \ {t}

\* transmit_sock.send_to(&buf, transmit_address)
SendBuf(t) == t.buf

\* the send_to calls that returned Err so far
SendErrors == BagCardinality(sends) - BagCardinality([s \in { x \in BagToSet(sends) : x.ok } |-> sends[s]])

\* one turn of a send task's for loop: send_to returns Ok or Err, both logged
SendStep(t) ==
    /\ Running
    /\ t \in tasks
    /\ \E ok \in BOOLEAN :
        /\ ok \/ SendErrors < MaxSendErrors
        /\ sends' = sends (+) SetToBag({[pos |-> t.pos, i |-> t.i,
                                         to |-> transmit_addresses[t.i],
                                         buf |-> SendBuf(t), ok |-> ok]})
        /\ tasks' = AfterSend(t, ok)
    /\ UNCHANGED <<args, mainPc, exit_code, receive_addresses, transmit_addresses,
                   address_filter, rcv, bus, tx_cnt, rx_cnt, rxNext, subPos, lagAt,
                   lastRead, probe>>

(***************************************************************************)
(* The relay.                                                              *)
(***************************************************************************)
Next ==
    \/ Startup
    \/ BindReceiver
    \/ BindTransmit
    \/ Subscribe
    \/ \E r \in DOMAIN rcv : \E d \in Arriving(r) : receive_handler(r, d)
    \/ \E r \in DOMAIN rcv : ReadError(r)
    \/ TransmitRecv
    \/ \E t \in tasks : SendStep(t)

Spec == Init /\ [][Next]_vars

\* the places a value can have on the channel in one run
Positions == 1..(MaxReads + 1)

\* tokio polls every task that can run: the transmit loop takes the next
\* value, and the send tasks make their next send_to
Fairness ==
    /\ WF_vars(TransmitRecv)
    /\ WF_vars(\E t \in tasks : SendStep(t))

\* the liveness runs start the relay with one receive address and one
\* transmit interface
LiveInit ==
    /\ Init
    /\ args.receive_interfaces = <<"eth0">>
    /\ args.transmit_interfaces = <<"eth0">>

LiveSpec == LiveInit /\ [][Next]_vars /\ Fairness

(***************************************************************************)
(* receive_handler as a function of its arguments: the receiver tasks run  *)
(* it with the address filter of the command line and with a Sender of a   *)
(* channel that has a Receiver handle, or has none.                        *)
(***************************************************************************)
HandlerInit ==
    /\ args \in CommandLines
    /\ mainPc = "bind_transmit"
    /\ exit_code = -1
    /\ LET ra == get_socket_addresses(args.receive_interfaces, InterfaceMap, args.port)
           ta == FlatMapPorts(transmit_ports(args.port), args.transmit_interfaces)
       IN  /\ ra # <<>>
           /\ ta # <<>>
           /\ receive_addresses = ra
           /\ transmit_addresses = ta
           /\ address_filter = AddressFilter(ToSet(ta), args.block_nets, args.allow_nets)
           /\ rcv = [r \in DOMAIN ra |-> "loop"]
           /\ tx_cnt = MainSenders + 2 * Len(ra)
    /\ rx_cnt \in {0, 1}
    /\ bus = <<>>
    /\ rxNext = 0
    /\ subPos = -1
    /\ lagAt = -1
    /\ tasks = {}
    /\ sends = EmptyBag
    /\ lastRead = NoDatagram
    /\ probe = IdleProbe

HandlerNext ==
    \/ \E r \in DOMAIN rcv : \E d \in Arriving(r) : receive_handler(r, d)
    \/ \E r \in DOMAIN rcv : ReadError(r)

HandlerSpec == HandlerInit /\ [][HandlerNext]_vars

(***************************************************************************)
(* The filter as a function table: a filter and a candidate are drawn, and *)
(* should_transmit is applied to them.                                     *)
(***************************************************************************)
SampleNets ==
    { Net(<<192, 168, 0, 0>>, 16), Net(<<192, 168, 1, 77>>, 24),
      Net(<<192, 168, 16, 0>>, 20) }

SampleIps ==
    { <<10, 0, 0, 2>>, <<192, 168, 0, 0>>, <<192, 168, 1, 10>>,
      <<192, 168, 1, 255>>, <<192, 168, 2, 10>>, <<192, 168, 31, 255>>,
      <<192, 168, 32, 0>>, <<192, 169, 0, 0>> }

SampleTransmitAddresses ==
    { SocketAddrV4(<<10, 0, 0, 2>>, 9001), SocketAddrV4(<<192, 168, 1, 10>>, 9001) }

\* the Vec<Ipv4Net> of at most n networks
NetSeqs(n) == UNION { [1..k -> SampleNets] : k \in 0..n }

Probes ==
    { [filter |-> AddressFilter(set, block, allow),
       candidate |-> SocketAddrV4(ip, port),
       done |-> FALSE, res |-> FALSE] :
         set \in SUBSET SampleTransmitAddresses,
         block \in NetSeqs(MaxNets), allow \in NetSeqs(MaxNets),
         ip \in SampleIps, port \in {9001, 4000} }

FilterInit ==
    /\ PipelineInit
    /\ args = Args(9000, <<"eth0", "eth1">>, <<"eth0">>,
                   <<Net(<<192, 168, 0, 0>>, 16)>>, <<>>)
    /\ probe \in Probes

\* address_filter.should_transmit(&candidate)
ApplyFilter ==
    /\ ~probe.done
    /\ probe' = [probe EXCEPT !.done = TRUE,
                              !.res = should_transmit(probe.filter, probe.candidate)]
    /\ UNCHANGED pipeline

FilterNext == ApplyFilter

FilterSpec == FilterInit /\ [][FilterNext]_vars

(***************************************************************************)
(* The claims.                                                             *)
(***************************************************************************)
\* bit k (1 the most significant, 32 the least) of an IPv4 address
Bit(ip, k) == (ip[((k - 1) \div 8) + 1] \div (2 ^ (7 - ((k - 1) % 8)))) % 2

\* a CIDR network contains an address when the address has the network's prefix
InNetwork(ip, net) == \A k \in 1..net.prefix_len : Bit(ip, k) = Bit(net.addr, k)

\* the address (IP and port) is a member of the Transmit-Address Set
IsStorm(filter, a) == a \in filter.transmit_addresses_set

\* the IP is contained in at least one block-list network
IsBlocked(filter, a) ==
    \E i \in DOMAIN filter.block_nets : InNetwork(a.ip, filter.block_nets[i])

\* the IP is contained in at least one allow-list network
IsAllowed(filter, a) ==
    \E i \in DOMAIN filter.allow_nets : InNetwork(a.ip, filter.allow_nets[i])

\* NOT storm AND (NOT blocked OR allowed)
FilterRule(filter, a) ==
    ~IsStorm(filter, a) /\ (~IsBlocked(filter, a) \/ IsAllowed(filter, a))

\* C1: for every candidate address, Transmit-Address Set, block list and allow
\* list, should_transmit returns exactly NOT storm AND (NOT blocked OR
\* allowed); with an empty block list every non-storm address passes, and an
\* address that is blocked and not allowed is rejected.
C1_FilterTable ==
    probe.done =>
        /\ probe.res = FilterRule(probe.filter, probe.candidate)
        /\ (probe.filter.block_nets = <<>> /\ ~IsStorm(probe.filter, probe.candidate)
                => probe.res)
        /\ ((IsBlocked(probe.filter, probe.candidate)
                /\ ~IsAllowed(probe.filter, probe.candidate)
                /\ ~IsStorm(probe.filter, probe.candidate))
                => ~probe.res)

\* should_transmit has rejected a candidate that is blocked, not allowed and no
\* storm address, by a network whose broadcast address it is
C1_Witness ==
    /\ probe.done
    /\ ~probe.res
    /\ ~IsStorm(probe.filter, probe.candidate)
    /\ IsBlocked(probe.filter, probe.candidate)
    /\ ~IsAllowed(probe.filter, probe.candidate)
    /\ probe.filter.allow_nets # <<>>
    /\ probe.candidate.ip = <<192, 168, 31, 255>>

(***************************************************************************)
(* The pipeline's history, read from the state.                            *)
(***************************************************************************)
\* the source is IPv4 and a member of the Transmit-Address Set
IsStormSource(a) == a.fam = "V4" /\ a.inner \in ToSet(transmit_addresses)

\* the send attempts made so far for the value at pos
SendsOf(pos) == { s \in BagToSet(sends) : s.pos = pos }

\* how many send attempts of the value at pos went to address a
CopiesTo(pos, a) ==
    LET S == { s \in SendsOf(pos) : s.to = a }
    IN  BagCardinality([s \in S |-> sends[s]])

\* the subscription has returned the value at pos to the transmit loop
Delivered(pos) == (\E t \in tasks : t.pos = pos) \/ SendsOf(pos) # {}

\* the value at pos was delivered and its send task has ended
Forwarded(pos) == SendsOf(pos) # {} /\ ~(\E t \in tasks : t.pos = pos)

\* a lag dropped the value at pos: when recv returned Lagged the channel no
\* longer retained it, and it had not been delivered
LagDropped(pos) == lagAt >= 0 /\ pos <= lagAt - CHANNEL_SIZE /\ ~Delivered(pos)

\* C2: no datagram whose source address is a member of the Transmit-Address
\* Set is on the Bus or was sent to a destination, whatever the lists hold.
C2_StormGuard ==
    /\ \A k \in DOMAIN bus : ~IsStormSource(bus[k].source_addr)
    /\ \A s \in BagToSet(sends) : ~IsStormSource(bus[s.pos].source_addr)

\* a datagram from a destination address that the allow list covers was read
\* last, while other datagrams were published and sent
C2_Witness ==
    /\ IsStormSource(lastRead.src)
    /\ IsAllowed(address_filter, lastRead.src.inner)
    /\ bus # <<>>
    /\ sends # EmptyBag

\* no value on the Bus is a datagram the relay sent itself
NoSelfFeed == \A k \in DOMAIN bus : bus[k].origin = "net"

\* C3: the relay never publishes a datagram it sent itself, and an inbound
\* datagram causes at most one send per destination.
C3_NoFeedback ==
    /\ NoSelfFeed
    /\ \A pos \in DOMAIN bus : \A a \in ToSet(transmit_addresses) :
           CopiesTo(pos, a) <= 1

\* C4: a Receiver publishes the datagram it read exactly when its source is
\* IPv4 and passes the filter rule; otherwise the Bus is left as it was; in
\* both cases the Receiver stays in its loop.
C4_PublishIffAdmitted ==
    [][\A r \in DOMAIN rcv : \A d \in Arriving(r) :
          receive_handler(r, d) =>
              /\ IF d.src.fam = "V4" /\ FilterRule(address_filter, d.src.inner)
                 THEN /\ Len(bus') = Len(bus) + 1
                      /\ SubSeq(bus', 1, Len(bus)) = bus
                      /\ bus'[Len(bus')].source_addr = d.src
                      /\ bus'[Len(bus')].buf.data = d.data
                 ELSE bus' = bus
              /\ rcv'[r] = "loop"
              /\ Running']_vars

\* a non-IPv4 datagram was read last and is not on the Bus, which holds an
\* earlier datagram, and the Receivers are in their loops
C4_Witness ==
    /\ lastRead.src.fam = "V6"
    /\ bus # <<>>
    /\ \A k \in DOMAIN bus : bus[k].source_addr # lastRead.src
    /\ rcv # <<>>
    /\ \A r \in DOMAIN rcv : rcv[r] = "loop"

\* C5: a delivered datagram gets exactly one send attempt to each destination,
\* never two to the same, each with the bytes the Receiver read (the first
\* len bytes, len <= BUFFER_SIZE).
C5_ExactlyOneSend ==
    /\ \A pos \in DOMAIN bus : \A a \in ToSet(transmit_addresses) :
           /\ CopiesTo(pos, a) <= 1
           /\ Forwarded(pos) => CopiesTo(pos, a) = 1
    /\ \A s \in BagToSet(sends) :
           /\ s.buf = bus[s.pos].buf
           /\ s.buf.len <= BUFFER_SIZE

\* C6: with fair scheduling, a datagram published after the subscription was
\* created is eventually send-attempted to every destination, unless a lag
\* dropped it.
C6_EventuallySent ==
    \A pos \in Positions :
        (subPos >= 0 /\ subPos < pos /\ pos <= Len(bus))
        ~> (\/ LagDropped(pos)
            \/ \A i \in DOMAIN transmit_addresses : \E s \in SendsOf(pos) : s.i = i)

\* a datagram published after the subscription has had a send attempt to
\* every destination
C6_Witness ==
    \E pos \in DOMAIN bus :
        /\ subPos >= 0 /\ subPos < pos
        /\ \A i \in DOMAIN transmit_addresses : \E s \in SendsOf(pos) : s.i = i

\* C7: a datagram published before the subscription was created is never
\* delivered to the transmit loop and never sent.
C7_NothingBeforeSubscribe ==
    \A pos \in DOMAIN bus : (subPos = -1 \/ pos <= subPos) => ~Delivered(pos)

\* a Receiver published a datagram before the subscription was created, and a
\* later datagram was sent
C7_Witness ==
    /\ subPos >= 1
    /\ \E pos \in DOMAIN bus : pos > subPos /\ SendsOf(pos) # {}

\* C8: after a failed send the transmit loop is still running, and the send
\* attempts of the same datagram to the remaining destinations are made or
\* still to come in its send task.
C8_SendFailureNotFatal ==
    \A s \in BagToSet(sends) : ~s.ok =>
        /\ mainPc = "loop"
        /\ \A j \in (s.i + 1)..Len(transmit_addresses) :
               \/ \E t \in tasks : t.pos = s.pos /\ t.i <= j
               \/ \E s2 \in SendsOf(s.pos) : s2.i = j

\* a send failed, the next destination of the same datagram was attempted, and
\* a later datagram was forwarded to every destination
C8_Witness ==
    \E s \in BagToSet(sends) :
        /\ ~s.ok
        /\ \E s2 \in SendsOf(s.pos) : s2.i = s.i + 1
        /\ \E pos \in DOMAIN bus : pos > s.pos /\ Forwarded(pos)

\* C9: after a lag signal the transmit loop is still running, its cursor is at
\* or past the oldest value the channel retained then, and every value the
\* cursor has passed since was delivered.
C9_LagNotFatal ==
    lagAt >= 0 =>
        /\ mainPc = "loop"
        /\ exit_code = -1
        /\ rxNext >= lagAt - CHANNEL_SIZE
        /\ \A pos \in DOMAIN bus :
               (lagAt - CHANNEL_SIZE < pos /\ pos <= rxNext) => Delivered(pos)

\* the subscription lagged, and a datagram published after the lag signal was
\* sent
C9_Witness ==
    /\ lagAt >= 0
    /\ \E pos \in DOMAIN bus : pos > lagAt /\ SendsOf(pos) # {}

\* C10: a read failure on a Receiver's endpoint is logged and the Receiver
\* continues its loop: a started Receiver is never gone.
C10_ReadErrorRecoverable == \A r \in DOMAIN rcv : rcv[r] = "loop"

\* the step is send task t's send_to returning Err
FailedSend(t) ==
    /\ SendStep(t)
    /\ sends' = sends (+) SetToBag({[pos |-> t.pos, i |-> t.i,
                                     to |-> transmit_addresses[t.i],
                                     buf |-> t.buf, ok |-> FALSE]})

\* C11: a read failure on one Receiver's endpoint leaves every other Receiver,
\* the Bus, the transmit loop and the send tasks as they were, and so does a
\* failed send (but for its own task going on to the next destination); every
\* Receiver that has not failed itself can read and publish, the Bus has a
\* receiver handle, and the transmit loop can take the next value.
C11_FailureIsolation ==
    /\ [][/\ \A r \in DOMAIN rcv : ReadError(r) =>
                 /\ \A r2 \in DOMAIN rcv \ {r} : rcv'[r2] = rcv[r2]
                 /\ mainPc' = mainPc /\ exit_code' = -1
                 /\ rx_cnt' = rx_cnt /\ rx_cnt' >= 1
                 /\ bus' = bus /\ rxNext' = rxNext /\ tasks' = tasks
           /\ \A t \in tasks : FailedSend(t) =>
                 /\ rcv' = rcv
                 /\ mainPc' = "loop" /\ exit_code' = -1
                 /\ rx_cnt' = rx_cnt /\ rx_cnt' >= 1
                 /\ bus' = bus /\ rxNext' = rxNext
                 /\ \A t2 \in tasks \ {t} : t2 \in tasks']_vars
    /\ [](\A r \in DOMAIN rcv :
            (Running /\ rcv[r] = "loop" /\ ~Silent) =>
                /\ rx_cnt >= 1
                /\ \A d \in Arriving(r) : ENABLED receive_handler(r, d))
    /\ []((mainPc = "loop" /\ rxNext < Len(bus)) => ENABLED TransmitRecv)

\* one Receiver's read failed and a send failed, and a datagram that another
\* Receiver published after the failed send's datagram was forwarded
C11_Witness ==
    \E r \in DOMAIN rcv : \E s \in BagToSet(sends) :
        /\ rcv[r] = "panicked"
        /\ ~s.ok
        /\ \E pos \in DOMAIN bus :
               /\ pos > s.pos
               /\ bus[pos].by # r
               /\ rcv[bus[pos].by] = "loop"
               /\ Forwarded(pos)

\* the IPv4 addresses of the named interfaces, as the host reports them
NamedV4(interfaces) ==
    UNION { { InterfaceMap[interfaces[k]][j].ip :
                j \in { j \in DOMAIN InterfaceMap[interfaces[k]] :
                          InterfaceMap[interfaces[k]][j].fam = "V4" } } :
            k \in { k \in DOMAIN interfaces : interfaces[k] \in DOMAIN InterfaceMap } }

\* C12: with no listening address or no destination address the process is
\* over after startup; a bind that does not succeed ends the process; a
\* process that ended has a non-zero exit status, has never subscribed to the
\* Bus and has made no send attempt; the transmit loop runs only with every
\* receive endpoint bound.
C12_StartupFailuresExit ==
    /\ []((mainPc # "start" /\ (\/ NamedV4(args.receive_interfaces) = {}
                                \/ NamedV4(args.transmit_interfaces) = {}))
            => mainPc = "exited")
    /\ [](mainPc = "exited" =>
            /\ exit_code > 0
            /\ subPos = -1
            /\ tasks = {}
            /\ sends = EmptyBag)
    /\ [](mainPc \in {"subscribe", "loop"} =>
            /\ receive_addresses # <<>>
            /\ transmit_addresses # <<>>
            /\ Len(rcv) = Len(receive_addresses))
    /\ [][/\ ((mainPc = "bind_receivers" /\ mainPc' # mainPc) =>
                 \/ mainPc' = "exited" /\ exit_code' > 0 /\ rcv' = rcv
                 \/ mainPc' = "bind_transmit" /\ Len(rcv') = Len(receive_addresses))
           /\ ((mainPc = "bind_transmit" /\ mainPc' # mainPc) =>
                 \/ mainPc' = "exited" /\ exit_code' > 0
                 \/ mainPc' = "subscribe")
           /\ (mainPc = "exited" => mainPc' = "exited")]_vars

\* the bind of a later endpoint failed after a Receiver had started and
\* published: the process is over with a non-zero status and nothing was sent
C12_Witness ==
    /\ mainPc = "exited"
    /\ exit_code = 101
    /\ Len(rcv) >= 1
    /\ bus # <<>>
    /\ sends = EmptyBag

\* the step is a send attempt of the value at p to address a
SendAttempt(p, a) ==
    \E t \in tasks :
        /\ t.pos = p
        /\ transmit_addresses[t.i] = a
        /\ SendStep(t)

\* C13: the send attempts toward one destination are made in the order in
\* which the subscription returned the datagrams: no send of the value at p to
\* a destination is attempted after a send of a later value q to it.
C13_SendOrderPerDestination ==
    [][\A p \in DOMAIN bus : \A a \in ToSet(transmit_addresses) :
          SendAttempt(p, a) =>
              ~(\E s \in BagToSet(sends) : s.to = a /\ s.pos > p)]_vars

\* the step is the send attempt of the value at p to the j-th destination
SendAttemptAt(p, j) ==
    \E t \in tasks :
        /\ t.pos = p
        /\ t.i = j
        /\ SendStep(t)

\* C14: while the send of a datagram toward one destination has not completed,
\* the send attempt of the same datagram toward every other destination that
\* was not attempted yet can be made.
C14_NoWaitingBetweenDestinations ==
    \A t \in tasks : \A j \in DOMAIN transmit_addresses :
        (j > t.i /\ transmit_addresses[j] # transmit_addresses[t.i])
            => ENABLED SendAttemptAt(t.pos, j)

\* the values on the Bus that Receiver r published, in Bus order
PublishedBy(b, r) == SelectSeq(b, LAMBDA x : x.by = r)

\* the step is a read of Receiver r; the datagram it read is lastRead' (the
\* first conjunct follows from receive_handler: it tells a read from a step
\* of main() or of a send task at once)
ReadBy(r) ==
    /\ UNCHANGED <<mainPc, rxNext, tasks, sends>>
    /\ lastRead' \in Arriving(r)
    /\ receive_handler(r, lastRead')

\* the datagram has an IPv4 source that passes the filter rule
Admitted(d) == d.src.fam = "V4" /\ FilterRule(address_filter, d.src.inner)

\* C15: a Receiver's read puts its datagram, when admitted, behind everything
\* that Receiver has published before and leaves the other Receivers' values
\* as they are, so a Receiver's values are on the Bus in the order it read
\* them; the datagram is filtered and published within the read's own step:
\* an admitted datagram that was read last is the newest value on the Bus.
C15_PerReceiverOrder ==
    /\ [][\A r \in DOMAIN rcv :
             ReadBy(r) =>
                 LET d == lastRead'
                 IN  /\ PublishedBy(bus', r) =
                            IF Admitted(d)
                            THEN Append(PublishedBy(bus, r),
                                        [buf |-> [data |-> d.data,
                                                  len |-> Min(d.len, BUFFER_SIZE)],
                                         source_addr |-> d.src, origin |-> d.origin,
                                         by |-> r])
                            ELSE PublishedBy(bus, r)
                     /\ \A r2 \in DOMAIN rcv \ {r} :
                            PublishedBy(bus', r2) = PublishedBy(bus, r2)]_vars
    /\ [](Admitted(lastRead) =>
            /\ bus # <<>>
            /\ bus[Len(bus)].source_addr = lastRead.src
            /\ bus[Len(bus)].buf.data = lastRead.data)

\* a Receiver published a datagram, another Receiver published one after it,
\* and the first Receiver published again
C15_Witness ==
    \E i, j, k \in DOMAIN bus :
        /\ i < j /\ j < k
        /\ bus[i].by = bus[k].by
        /\ bus[j].by # bus[i].by

\* C16: a Receiver's read and publish step is enabled whatever the Bus holds
\* and wherever the subscription's cursor is; an admitted datagram is always
\* accepted as the newest value and the cursor is left alone; the subscription
\* is only ever handed one of the CHANNEL_SIZE newest values (2 << 7 = 256 in
\* the source), and a value it lost is older than the values retained when
\* the lag was signalled.
C16_PublishNeverBlocks ==
    /\ [](\A r \in DOMAIN rcv :
            (Running /\ rcv[r] = "loop" /\ ~Silent) =>
                \A d \in Arriving(r) : ENABLED receive_handler(r, d))
    /\ [][\A r \in DOMAIN rcv :
             (ReadBy(r) /\ Admitted(lastRead')) =>
                 /\ Len(bus') = Len(bus) + 1
                 /\ bus'[Len(bus')].source_addr = lastRead'.src
                 /\ bus'[Len(bus')].buf.data = lastRead'.data
                 /\ rxNext' = rxNext
                 /\ rcv'[r] = "loop"]_vars
    /\ [][TransmitRecv =>
             \A t \in tasks' \ tasks :
                 /\ t.pos > Len(bus) - CHANNEL_SIZE
                 /\ t.pos <= Len(bus)]_vars
    /\ [](\A pos \in DOMAIN bus :
            (subPos >= 0 /\ subPos < pos /\ pos <= rxNext /\ ~Delivered(pos))
                => (lagAt >= 0 /\ pos <= lagAt - CHANNEL_SIZE))
    /\ [](2 * (2 ^ ChannelShiftOfSource) = 256)

\* the Receivers published more than CHANNEL_SIZE values while the
\* subscription was behind: the oldest was lost to it, the values retained
\* at the lag signal were delivered, and a later value was still accepted
C16_Witness ==
    /\ lagAt > CHANNEL_SIZE
    /\ Len(bus) > lagAt
    /\ \E pos \in DOMAIN bus : subPos < pos /\ LagDropped(pos)
    /\ \A pos \in (lagAt - CHANNEL_SIZE + 1)..lagAt : Delivered(pos)

\* C17: when the publish of an admitted datagram fails (the channel has no
\* receiver handle), the datagram is dropped, nothing else changes, and the
\* Receiver is still in its loop, where it can read the next datagram.
C17_PublishFailureNotFatal ==
    /\ [][\A r \in DOMAIN rcv :
             (ReadBy(r) /\ rx_cnt = 0 /\ Admitted(lastRead')) =>
                 /\ bus' = bus
                 /\ rcv' = rcv
                 /\ rcv'[r] = "loop"
                 /\ Running'
                 /\ exit_code' = -1]_vars
    /\ [](\A r \in DOMAIN rcv :
            (rx_cnt = 0 /\ rcv[r] = "loop" /\ lastRead # NoDatagram) =>
                \A d \in Arriving(r) : ENABLED receive_handler(r, d))

\* the publish of an admitted datagram has failed: it was read last, it is not
\* on the Bus, and the Receivers are in their loops
C17_Witness ==
    /\ rx_cnt = 0
    /\ Admitted(lastRead)
    /\ bus = <<>>
    /\ rcv # <<>>
    /\ \A r \in DOMAIN rcv : rcv[r] = "loop"

\* C18: from the creation of the Bus on, while the process runs, the Bus has
\* a receiver handle, and every admitted datagram a Receiver reads is on the
\* Bus after the read, before the transmit subscription exists as well as
\* after: no publish fails.
C18_PublishAlwaysSucceeds ==
    /\ []((mainPc \notin {"start", "exited"}) => rx_cnt >= 1)
    /\ [][\A r \in DOMAIN rcv :
             (ReadBy(r) /\ Admitted(lastRead')) =>
                 /\ rx_cnt >= 1
                 /\ Len(bus') = Len(bus) + 1
                 /\ bus'[Len(bus')].by = r]_vars

\* a Receiver has published while main() had not subscribed yet, the only
\* receiver handle being the one created with the channel
C18_Witness ==
    /\ subPos = -1
    /\ rx_cnt = 1
    /\ bus # <<>>
    /\ Running

\* the transmit loop is in recv() with nothing to read
Idle == mainPc = "loop" /\ rxNext = Len(bus)

\* C19: while the transmit loop runs the Bus has a sender handle, also when
\* every receiver task is gone; with nothing to read recv() pends instead of
\* returning; and every return of recv() without a value is a lag signal that
\* moves the cursor forward.
C19_NeverClosed ==
    /\ [](mainPc = "loop" => tx_cnt >= 1)
    /\ [](Idle => ~ENABLED TransmitRecv)
    /\ [][(TransmitRecv /\ tasks' = tasks) =>
             /\ lagAt' = Len(bus)
             /\ rxNext' > rxNext
             /\ rxNext' = Len(bus) - CHANNEL_SIZE]_vars

\* every receiver task has ended on a read error and the transmit loop has
\* taken all there was to take: it waits with the sender handle of main()
C19_Witness ==
    /\ Idle
    /\ rcv # <<>>
    /\ \A r \in DOMAIN rcv : rcv[r] = "panicked"
    /\ tx_cnt = 1
    /\ sends # EmptyBag

\* C20: once main() has resolved its addresses, the destinations are exactly
\* the endpoints (ip, p + 1) and (ip, p + 2) for the IPv4 addresses ip of the
\* transmit interfaces, their ports are u16 values, and none of them has the
\* receive port p.
C20_PortsWithoutOverflow ==
    (/\ mainPc # "start"
     /\ NamedV4(args.receive_interfaces) # {}
     /\ NamedV4(args.transmit_interfaces) # {}) =>
        /\ ToSet(transmit_addresses) =
               { SocketAddrV4(ip, args.port + i) :
                   ip \in NamedV4(args.transmit_interfaces), i \in 1..2 }
        /\ \A a \in ToSet(transmit_addresses) :
               /\ a.port < U16
               /\ a.port # args.port

====
